---------------------------- MODULE Spec2Model ----------------------------
(***************************************************************************)
(* A model of the proof-of-work chain of src/src/block.rs: the Block       *)
(* record, ProofOfWork (to_bytes, calculate_hash, is_valid, prefix) and    *)
(* the Blockchain container (new, add, iter).                              *)
(*                                                                         *)
(* calculate_hash is an unbounded loop, so it is modelled one iteration    *)
(* at a time: `block` and `bytes` are its `&mut Block` and its local       *)
(* buffer, `pc` is the position of the single thread.                      *)
(*                                                                         *)
(* Scaling.  A u32 nonce cannot be enumerated, so the nonce type is scaled *)
(* to 0..MaxNonce: MaxNonce plays the part of u32::MAX, and the increment  *)
(* at MaxNonce overflows.  Everything else keeps its width: hashes are 32  *)
(* bytes, the nonce is serialised as 4 big-endian bytes, the target is 16  *)
(* leading zero bits read through a 32-bit prefix.                         *)
(*                                                                         *)
(* SHA-256 (the sha2 crate) is outside the repository.  digest_sha stands  *)
(* for it: a deterministic function from byte strings to 32-byte digests,  *)
(* dense enough in digests that meet the target for the search to end      *)
(* within 0..MaxNonce for most inputs, and not for all.                    *)
(***************************************************************************)
EXTENDS Integers, Sequences, FiniteSets, TLC

VARIABLES
    overflow_checks,  \* the build: TRUE = overflow checks on (debug), FALSE = off (release)
    chain,            \* Blockchain.chain : Vec<Block>
    pc,               \* "idle" | "write" | "digest" | "test" | "sealed" | "panicked"
    block,            \* the block calculate_hash is working on
    bytes,            \* calculate_hash's local pre-image buffer
    hash,             \* calculate_hash's local digest of the buffer
    arg,              \* the payload passed to the add in progress / last completed
    ret,              \* the Option<&Block> the last add returned
    it,               \* the live slice iterator (its position), or None
    yielded,          \* the blocks the live iterator has yielded so far
    input,            \* arguments of a direct call of the public API (Block::raw ...)
    output            \* results of the direct calls

vars == <<overflow_checks, chain, pc, block, bytes, hash, arg, ret, it, yielded, input, output>>

---------------------------------------------------------------------------
(* Bounds of the model *)

\* The largest nonce of the scaled nonce type (u32::MAX in the code).
MaxNonce == 7

\* The longest chain the model builds.
MaxBlocks == 3

(* Program constants *)

\* static DIFFICULTY: u8 = 16
DIFFICULTY == 16

\* type Hash = [u8; 32]
HashLen == 32

\* The payloads the callers pass: those of the test blockchain_pow.
Payloads == { <<0>>, <<116, 101, 115, 116, 105, 110, 103>>, <<1, 2, 3>> }

---------------------------------------------------------------------------
(* Option<T> *)

None == [some |-> FALSE]

Some(x) == [some |-> TRUE, val |-> x]

\* The value a panicking evaluation "returns": no u32.
Panic == << >>

---------------------------------------------------------------------------
(* Integers *)

RECURSIVE Pow2(_)
Pow2(n) == IF n = 0 THEN 1 ELSE 2 * Pow2(n - 1)

\* u32::to_be_bytes
to_be_bytes(n) ==
    << (n \div 16777216) % 256, (n \div 65536) % 256, (n \div 256) % 256, n % 256 >>

\* A slip: the bytes read little-endian.
from_le_bytes(b) == << b[4] * 256 + b[3], b[2] * 256 + b[1] >>

\* u32::from_be_bytes.  A u32 does not fit TLC's 32-bit signed integers, so it is
\* kept as two 16-bit limbs <<high, low>>.
from_be_bytes(b) == << b[1] * 256 + b[2], b[3] * 256 + b[4] >>

U32Zero == << 0, 0 >>

\* x >> s for 0 <= s <= 31, on limbs.
shr(x, s) ==
    IF s >= 16
    THEN << 0, x[1] \div Pow2(s - 16) >>
    ELSE << x[1] \div Pow2(s),
            (x[1] % Pow2(s)) * Pow2(16 - s) + x[2] \div Pow2(s) >>

\* The `>>` of a u32 by a u8 amount: a shift by 32 or more overflows, which
\* panics with overflow checks and masks the amount (s & 31) without.
u32_shr(x, s, checks) ==
    IF s < 32 THEN shr(x, s)
    ELSE IF checks THEN Panic
    ELSE shr(x, s % 32)

---------------------------------------------------------------------------
(* Block *)

ZeroHash == [i \in 1..HashLen |-> 0]

\* Block::raw
Block_raw(previous_hash, payload, nonce, h) ==
    [nonce |-> nonce, previous_hash |-> previous_hash, payload |-> payload, hash |-> h]

\* Block::new
Block_new(previous_hash, payload) == Block_raw(previous_hash, payload, 0, ZeroHash)

\* Block::genesis
Block_genesis(payload) == Block_new(ZeroHash, payload)

\* A slip: the candidate linked to the hash before the last block's.
Block_chain_stale(self, payload) == Block_new(self.previous_hash, payload)

\* Block::chain
Block_chain(self, payload) == Block_new(self.hash, payload)

---------------------------------------------------------------------------
(* ProofOfWork *)

\* x * x modulo m.
sqmod(x, m) == (x * x) % m

\* 31^k modulo m, by repeated squaring.
RECURSIVE pow31(_, _)
pow31(k, m) ==
    IF k = 0 THEN 1
    ELSE IF k % 2 = 0 THEN sqmod(pow31(k \div 2, m), m)
    ELSE (31 * pow31(k - 1, m)) % m

\* The polynomial sum of (bs[i] + 1) * 31^(hi - i) for i in lo..hi, modulo m,
\* split in halves.  m is below 2^15.5, so no product leaves 31 bits.
RECURSIVE absorb(_, _, _, _)
absorb(bs, lo, hi, m) ==
    IF lo > hi THEN 0
    ELSE IF lo = hi THEN (bs[lo] + 1) % m
    ELSE (absorb(bs, lo, (lo + hi) \div 2, m) * pow31(hi - (lo + hi) \div 2, m)
            + absorb(bs, (lo + hi) \div 2 + 1, hi, m)) % m

\* The digest laid out from the two absorbed states: the two leading bytes
\* each carry one bit of m1 (so one digest in four has 16 leading zero bits),
\* bytes 3..6 carry m1 and m2 themselves, and the rest is filled from them.
squeeze(m1, m2) ==
    [i \in 1..HashLen |->
        CASE i = 1 -> 173 * (m1 % 2)
          [] i = 2 -> 91 * ((m1 \div 2) % 2)
          [] i = 3 -> m1 \div 256
          [] i = 4 -> m1 % 256
          [] i = 5 -> m2 \div 256
          [] i = 6 -> m2 % 256
          [] OTHER -> (m1 \div i + i * m2) % 256]

\* ProofOfWork::digest_sha.  The stand-in for SHA-256: the bytes are absorbed
\* into two states (two prime moduli), from which the 32 bytes are laid out.
digest_sha(bs) ==
    squeeze(absorb(bs, 1, Len(bs), 46337), absorb(bs, 1, Len(bs), 46327))

\* ProofOfWork::prefix, with the difficulty and the build as parameters.
prefix_with(h, difficulty, checks) ==
    u32_shr(from_be_bytes(SubSeq(h, 1, 4)), 32 - difficulty, checks)

\* ProofOfWork::prefix
prefix(h) == prefix_with(h, DIFFICULTY, overflow_checks)

\* A slip: the stored hash serialised with the other three fields.
to_bytes_with_hash(b) == to_be_bytes(b.nonce) \o b.previous_hash \o b.payload \o b.hash

\* ProofOfWork::to_bytes
to_bytes(b) == to_be_bytes(b.nonce) \o b.previous_hash \o b.payload

\* A slip: the target checked, the stored hash not compared.
is_valid_target_only(b) == prefix(digest_sha(to_be_bytes(b.nonce) \o b.previous_hash \o b.payload)) = U32Zero

\* ProofOfWork::is_valid
is_valid(b) ==
    LET h == digest_sha(to_bytes(b))
    IN  b.hash = h /\ prefix(h) = U32Zero

---------------------------------------------------------------------------
(* Blockchain::add, with calculate_hash one iteration at a time *)

NoBlock == Block_raw(ZeroHash, <<>>, 0, ZeroHash)

\* Vec::last
last(v) == IF Len(v) = 0 THEN None ELSE Some(Len(v))

\* add, lines 134-142: build the candidate and enter calculate_hash, whose first
\* statement fills the buffer.
Add ==
    /\ pc = "idle"
    /\ it = None
    /\ Len(chain) < MaxBlocks
    /\ \E payload \in Payloads :
        /\ block' = IF Len(chain) = 0
                    THEN Block_genesis(payload)
                    ELSE Block_chain(chain[Len(chain)], payload)
        /\ arg' = payload
    /\ bytes' = to_bytes(block')
    /\ pc' = "write"
    /\ ret' = None
    /\ UNCHANGED <<overflow_checks, chain, hash, it, yielded, input, output>>

\* A slip: the nonce written little-endian.
WriteNonce_le ==
    /\ pc = "write"
    /\ bytes' = [i \in 1..Len(bytes) |->
                    IF i <= 4 THEN to_be_bytes(block.nonce)[5 - i] ELSE bytes[i]]
    /\ pc' = "digest"
    /\ UNCHANGED <<overflow_checks, chain, block, hash, arg, ret, it, yielded, input, output>>

\* calculate_hash, lines 44-48: the nonce goes into the first four bytes.
WriteNonce ==
    /\ pc = "write"
    /\ bytes' = [i \in 1..Len(bytes) |->
                    IF i <= 4 THEN to_be_bytes(block.nonce)[i] ELSE bytes[i]]
    /\ pc' = "digest"
    /\ UNCHANGED <<overflow_checks, chain, block, hash, arg, ret, it, yielded, input, output>>

\* calculate_hash, line 50: the digest of the buffer.
Digest ==
    /\ pc = "digest"
    /\ hash' = digest_sha(bytes)
    /\ pc' = "test"
    /\ UNCHANGED <<overflow_checks, chain, block, bytes, arg, ret, it, yielded, input, output>>

\* calculate_hash, lines 51-53: the digest meets the target.
Seal ==
    /\ pc = "test"
    /\ prefix(hash) = U32Zero
    /\ block' = [block EXCEPT !.hash = hash]
    /\ pc' = "sealed"
    /\ UNCHANGED <<overflow_checks, chain, bytes, hash, arg, ret, it, yielded, input, output>>

\* A slip: the nonce goes up by two.
Retry_by_two ==
    /\ pc = "test"
    /\ prefix(hash) # U32Zero
    /\ block.nonce < MaxNonce
    /\ block' = [block EXCEPT !.nonce = block.nonce + 2]
    /\ pc' = "write"
    /\ UNCHANGED <<overflow_checks, chain, bytes, hash, arg, ret, it, yielded, input, output>>

\* A slip: the increment left out.
Retry_stuck ==
    /\ pc = "test"
    /\ prefix(hash) # U32Zero
    /\ block.nonce < MaxNonce
    /\ pc' = "write"
    /\ UNCHANGED <<overflow_checks, chain, block, bytes, hash, arg, ret, it, yielded, input, output>>

\* calculate_hash, line 56: the digest misses the target, the nonce goes up.
Retry ==
    /\ pc = "test"
    /\ prefix(hash) # U32Zero
    /\ block.nonce < MaxNonce
    /\ block' = [block EXCEPT !.nonce = block.nonce + 1]
    /\ pc' = "write"
    /\ UNCHANGED <<overflow_checks, chain, bytes, hash, arg, ret, it, yielded, input, output>>

\* A slip: a saturating increment.
WrapNonce_saturating ==
    /\ pc = "test"
    /\ prefix(hash) # U32Zero
    /\ block.nonce = MaxNonce
    /\ ~overflow_checks
    /\ pc' = "write"
    /\ UNCHANGED <<overflow_checks, chain, block, bytes, hash, arg, ret, it, yielded, input, output>>

\* calculate_hash, line 56 at the largest nonce, overflow checks off: wraps.
WrapNonce ==
    /\ pc = "test"
    /\ prefix(hash) # U32Zero
    /\ block.nonce = MaxNonce
    /\ ~overflow_checks
    /\ block' = [block EXCEPT !.nonce = 0]
    /\ pc' = "write"
    /\ UNCHANGED <<overflow_checks, chain, bytes, hash, arg, ret, it, yielded, input, output>>

\* calculate_hash, line 56 at the largest nonce, overflow checks on: panics
\* ("attempt to add with overflow"); the thread unwinds.
PanicOverflow ==
    /\ pc = "test"
    /\ prefix(hash) # U32Zero
    /\ block.nonce = MaxNonce
    /\ overflow_checks
    /\ pc' = "panicked"
    /\ UNCHANGED <<overflow_checks, chain, block, bytes, hash, arg, ret, it, yielded, input, output>>

\* A slip: the sealed block inserted at the front.
Push_front ==
    /\ pc = "sealed"
    /\ chain' = <<block>> \o chain
    /\ ret' = last(chain')
    /\ pc' = "idle"
    /\ block' = NoBlock
    /\ bytes' = <<>>
    /\ hash' = ZeroHash
    /\ UNCHANGED <<overflow_checks, arg, it, yielded, input, output>>

\* add, lines 144-145: push the sealed block, return the last element.
Push ==
    /\ pc = "sealed"
    /\ chain' = Append(chain, block)
    /\ ret' = last(chain')
    /\ pc' = "idle"
    /\ block' = NoBlock
    /\ bytes' = <<>>
    /\ hash' = ZeroHash
    /\ UNCHANGED <<overflow_checks, arg, it, yielded, input, output>>

---------------------------------------------------------------------------
(* Blockchain::iter: a slice iterator, which borrows the chain *)

\* iter()
IterNew ==
    /\ pc = "idle"
    /\ it = None
    /\ it' = Some(0)
    /\ yielded' = <<>>
    /\ UNCHANGED <<overflow_checks, chain, pc, block, bytes, hash, arg, ret, input, output>>

\* Iterator::next: the next block, or None at the end.
IterNext ==
    /\ it # None
    /\ IF it.val < Len(chain)
       THEN /\ it' = Some(it.val + 1)
            /\ yielded' = Append(yielded, chain[it.val + 1])
       ELSE UNCHANGED <<it, yielded>>
    /\ UNCHANGED <<overflow_checks, chain, pc, block, bytes, hash, arg, ret, input, output>>

\* The iterator goes out of scope; the borrow ends.
IterDrop ==
    /\ it # None
    /\ it' = None
    /\ yielded' = <<>>
    /\ UNCHANGED <<overflow_checks, chain, pc, block, bytes, hash, arg, ret, input, output>>

---------------------------------------------------------------------------
(* The chain under its callers *)

\* Blockchain::new, in either build.
Init ==
    /\ overflow_checks \in BOOLEAN
    /\ chain = <<>>
    /\ pc = "idle"
    /\ block = NoBlock
    /\ bytes = <<>>
    /\ hash = ZeroHash
    /\ arg = <<>>
    /\ ret = None
    /\ it = None
    /\ yielded = <<>>
    /\ input = <<>>
    /\ output = <<>>

Mine == WriteNonce \/ Digest \/ Seal \/ Retry \/ WrapNonce \/ PanicOverflow

Next == Add \/ Mine \/ Push \/ IterNew \/ IterNext \/ IterDrop

Spec == Init /\ [][Next]_vars

\* The thread keeps running: a loop iteration or a return that can be taken is taken.
LiveSpec == Spec /\ WF_vars(Mine \/ Push)

---------------------------------------------------------------------------
(* Direct calls of the public API on blocks built with Block::raw *)

\* A digest other than the zero hash: a hash a caller may hold.
SomeHash == digest_sha(to_bytes(Block_genesis(<<0>>)))

PrevHashes == {ZeroHash, SomeHash}

\* The caller's next call is the k-th.
NextCall == Len(output) + 1

\* Two calls of calculate_hash, one after the other, on two raw blocks with
\* the same previous_hash and payload and any nonces and hashes.
MineInit ==
    /\ overflow_checks \in BOOLEAN
    /\ chain = <<>>
    /\ pc = "idle"
    /\ block = NoBlock
    /\ bytes = <<>>
    /\ hash = ZeroHash
    /\ arg = <<>>
    /\ ret = None
    /\ it = None
    /\ yielded = <<>>
    /\ \E p \in PrevHashes, q \in Payloads, n1, n2 \in 0..MaxNonce, h1 \in {ZeroHash, SomeHash} :
        input = << [previous_hash |-> p, payload |-> q, nonce |-> n1, hash |-> h1],
                   [previous_hash |-> p, payload |-> q, nonce |-> n2, hash |-> ZeroHash] >>
    /\ output = <<>>

\* Block::raw(...) and the call of calculate_hash on it (line 41 fills the buffer).
RawCall ==
    /\ pc = "idle"
    /\ NextCall <= Len(input)
    /\ block' = Block_raw(input[NextCall].previous_hash, input[NextCall].payload,
                          input[NextCall].nonce, input[NextCall].hash)
    /\ bytes' = to_bytes(block')
    /\ pc' = "write"
    /\ UNCHANGED <<overflow_checks, chain, hash, arg, ret, it, yielded, input, output>>

\* calculate_hash returns; the caller keeps the block as mined.
RawReturn ==
    /\ pc = "sealed"
    /\ output' = Append(output, block)
    /\ pc' = "idle"
    /\ block' = NoBlock
    /\ bytes' = <<>>
    /\ hash' = ZeroHash
    /\ UNCHANGED <<overflow_checks, chain, arg, ret, it, yielded, input>>

MineNext == RawCall \/ Mine \/ RawReturn

MineSpec == MineInit /\ [][MineNext]_vars

\* The hashes a tampered block may carry: the zero hash and the digests of
\* the blocks with the same previous_hash.
TamperHashes(p) ==
    {ZeroHash} \cup
    { digest_sha(to_be_bytes(n) \o p \o q) : n \in 0..MaxNonce, q \in Payloads }

\* t differs from s in exactly one of payload, nonce and hash.
OneFieldApart(s, t) ==
    /\ t.previous_hash = s.previous_hash
    /\ \/ t.payload # s.payload /\ t.nonce = s.nonce /\ t.hash = s.hash
       \/ t.payload = s.payload /\ t.nonce # s.nonce /\ t.hash = s.hash
       \/ t.payload = s.payload /\ t.nonce = s.nonce /\ t.hash # s.hash

\* The arguments of Block::raw that change one of payload, nonce and hash of s.
Tampered(s) ==
    { [s EXCEPT !.payload = q] : q \in Payloads \ {s.payload} } \cup
    { [s EXCEPT !.nonce = n] : n \in (0..MaxNonce) \ {s.nonce} } \cup
    { [s EXCEPT !.hash = h] : h \in TamperHashes(s.previous_hash) \ {s.hash} }

\* A sealed block and a block rebuilt from it with one field changed.
ValidInit ==
    /\ overflow_checks \in BOOLEAN
    /\ chain = <<>>
    /\ pc = "idle"
    /\ block = NoBlock
    /\ bytes = <<>>
    /\ hash = ZeroHash
    /\ arg = <<>>
    /\ ret = None
    /\ it = None
    /\ yielded = <<>>
    /\ \E p \in PrevHashes, q \in Payloads, n \in 0..MaxNonce :
        \E s \in { [previous_hash |-> p, payload |-> q, nonce |-> n,
                     hash |-> digest_sha(to_be_bytes(n) \o p \o q)] } :
            /\ is_valid(Block_raw(s.previous_hash, s.payload, s.nonce, s.hash))
            /\ \E t \in Tampered(s) :
                /\ OneFieldApart(s, t)
                /\ input = << s, t >>
    /\ output = <<>>

\* Block::raw(...) and the call of is_valid on it.
Validate ==
    /\ pc = "idle"
    /\ NextCall <= Len(input)
    /\ output' = Append(output,
                    is_valid(Block_raw(input[NextCall].previous_hash, input[NextCall].payload,
                                       input[NextCall].nonce, input[NextCall].hash)))
    /\ UNCHANGED <<overflow_checks, chain, pc, block, bytes, hash, arg, ret, it, yielded, input>>

ValidNext == Validate

ValidSpec == ValidInit /\ [][ValidNext]_vars

\* The bytes the sampled digests are made of.
ByteSamples == {0, 1, 128, 255}

\* A call of prefix on a digest whose four leading bytes are sampled (the
\* rest, which prefix does not read, is 255), under every difficulty 0..32.
PrefixInit ==
    /\ overflow_checks \in BOOLEAN
    /\ chain = <<>>
    /\ pc = "idle"
    /\ block = NoBlock
    /\ bytes = <<>>
    /\ hash = ZeroHash
    /\ arg = <<>>
    /\ ret = None
    /\ it = None
    /\ yielded = <<>>
    /\ \E d \in 0..32, b1, b2, b3, b4 \in ByteSamples :
        input = [difficulty |-> d,
                 hash |-> [i \in 1..HashLen |->
                            CASE i = 1 -> b1 [] i = 2 -> b2 [] i = 3 -> b3 [] i = 4 -> b4
                              [] OTHER -> 255]]
    /\ output = <<>>

\* prefix(&hash) with DIFFICULTY set to input.difficulty.
EvalPrefix ==
    /\ output = <<>>
    /\ output' = << prefix_with(input.hash, input.difficulty, overflow_checks) >>
    /\ UNCHANGED <<overflow_checks, chain, pc, block, bytes, hash, arg, ret, it, yielded, input>>

PrefixNext == EvalPrefix

PrefixSpec == PrefixInit /\ [][PrefixNext]_vars

---------------------------------------------------------------------------
(* What the properties speak of *)

\* Nonce n meets the target for a block with these previous_hash and payload.
Meets(n, previous_hash, payload) ==
    prefix(digest_sha(to_be_bytes(n) \o previous_hash \o payload)) = U32Zero

\* Some nonce of the nonce type meets the target.
Reachable(b) == \E n \in 0..MaxNonce : Meets(n, b.previous_hash, b.payload)

\* calculate_hash is running.
Mining == pc \in {"write", "digest", "test"}

\* The hash the next candidate is linked to.
Tip == IF Len(chain) = 0 THEN ZeroHash ELSE chain[Len(chain)].hash

---------------------------------------------------------------------------
(* C1: in every chain built by add, the block at index 0 has previous_hash    *)
(* equal to 32 zero bytes, and every later block has previous_hash equal to   *)
(* the hash of the block before it.                                           *)
C1_Linking ==
    \A i \in 1..Len(chain) :
        chain[i].previous_hash = IF i = 1 THEN ZeroHash ELSE chain[i - 1].hash

\* A chain of two blocks or more, the second linked to a real hash.
C1_Witness == Len(chain) >= 2 /\ chain[2].previous_hash # ZeroHash

(* C2: every block stored in the chain is self-valid: is_valid is true of it, *)
(* that is, its hash is the digest of to_bytes of its final fields and that   *)
(* digest meets the target (prefix = 0).                                      *)
C2_SelfValid ==
    \A i \in 1..Len(chain) :
        /\ is_valid(chain[i])
        /\ chain[i].hash = digest_sha(to_bytes(chain[i]))
        /\ prefix(chain[i].hash) = U32Zero

\* A stored block whose nonce the search had to advance.
C2_Witness == \E i \in 1..Len(chain) : chain[i].nonce > 0 /\ is_valid(chain[i])

(* C5: the chain is append-only: a completed add lengthens the chain by       *)
(* exactly one, the new block (carrying the payload passed) at the end; every *)
(* block stored before keeps its index and its four fields; iter yields the   *)
(* blocks in insertion order and does not modify the chain.                   *)
C5_AppendOnly ==
    [][ /\ Len(chain') >= Len(chain)
        /\ SubSeq(chain', 1, Len(chain)) = chain
        /\ (pc = "sealed" /\ pc' = "idle") =>
                /\ Len(chain') = Len(chain) + 1
                /\ chain'[Len(chain')] = block
                /\ chain'[Len(chain')].payload = arg
        /\ chain' # chain => (pc = "sealed" /\ pc' = "idle")
        /\ (it' # it \/ yielded' # yielded) => chain' = chain
        /\ it' # None => yielded' = SubSeq(chain', 1, it'.val)
      ]_vars

\* An iterator that has walked a chain of two blocks or more to its end.
C5_Witness ==
    /\ it # None
    /\ Len(chain) >= 2
    /\ it.val = Len(chain)
    /\ yielded = chain

(* C9: mining seals with the least nonce that meets the target: for every     *)
(* block appended by add no smaller nonce meets it; the buffer hashed at each *)
(* iteration is to_bytes of the block with its current nonce; mining leaves   *)
(* previous_hash and payload as the candidate was built.                      *)
C9_LeastNonce ==
    /\ \A i \in 1..Len(chain) :
        /\ Meets(chain[i].nonce, chain[i].previous_hash, chain[i].payload)
        /\ \A k \in 0..(chain[i].nonce - 1) :
                ~Meets(k, chain[i].previous_hash, chain[i].payload)
    /\ pc \in {"digest", "test"} => bytes = to_bytes(block)
    /\ pc = "test" => hash = digest_sha(to_bytes(block))
    /\ (Mining \/ pc = "sealed") =>
        /\ block.payload = arg
        /\ block.previous_hash = Tip
        /\ block.nonce \in 0..MaxNonce
        /\ \A k \in 0..(block.nonce - 1) : ~Meets(k, block.previous_hash, block.payload)

\* A stored block sealed at nonce 2 or later: two nonces were tried and left behind.
C9_Witness == \E i \in 1..Len(chain) : chain[i].nonce >= 2

(* C7, as claimed: when no nonce meets the target, the loop, after its        *)
(* attempt at the largest nonce, wraps the nonce to 0 and goes on; it never   *)
(* aborts and never writes the block's hash.                                  *)
C7_WrapsForever ==
    [][ (pc = "test" /\ block.nonce = MaxNonce /\ ~Reachable(block)) =>
            (pc' = "write" /\ block'.nonce = 0 /\ block'.hash = block.hash)
      ]_vars

(* C7, amended: when no nonce meets the target, mining never writes the       *)
(* block's hash, never seals and add never returns; after the attempt at the  *)
(* largest nonce the increment wraps the nonce to 0 and the loop goes on over *)
(* the same nonces when overflow checks are off, and panics (aborting the     *)
(* thread) when overflow checks are on.                                       *)
C7_Exhaustion ==
    [][ (Mining /\ ~Reachable(block)) =>
            /\ block'.hash = block.hash
            /\ block'.previous_hash = block.previous_hash
            /\ block'.payload = block.payload
            /\ chain' = chain
            /\ ret' = ret
            /\ pc' \in {"write", "digest", "test", "panicked"}
            /\ pc' = "panicked" => (overflow_checks /\ pc = "test" /\ block.nonce = MaxNonce)
            /\ (pc = "test" /\ block.nonce = MaxNonce) =>
                    IF overflow_checks
                    THEN pc' = "panicked" /\ block' = block
                    ELSE pc' = "write" /\ block'.nonce = 0
            /\ ~overflow_checks => ENABLED Mine
      ]_vars

\* The loop has wrapped: the nonce is 0 again while the buffer still holds the
\* largest nonce, and no nonce meets the target.
C7_Witness ==
    /\ pc = "write"
    /\ block.nonce = 0
    /\ SubSeq(bytes, 1, 4) = to_be_bytes(MaxNonce)
    /\ ~Reachable(block)

(* C6: when some nonce meets the target for the candidate, add terminates;    *)
(* when it has returned, the result is Some, never None, and refers to the    *)
(* block just appended: the last of the chain, carrying the payload passed.   *)
C6_AddReturns ==
    /\ [](((Mining \/ pc = "sealed") /\ Reachable(block)) => <>(pc = "idle"))
    /\ []((pc = "idle" /\ Len(chain) > 0) =>
            /\ ret # None
            /\ ret = Some(Len(chain))
            /\ chain[ret.val].payload = arg)

\* An add has returned a block that took several attempts.
C6_Witness ==
    /\ pc = "idle"
    /\ ret # None
    /\ chain[ret.val].nonce > 0
    /\ chain[ret.val].payload = arg

(* C3, as claimed: two blocks with the same previous_hash and payload come   *)
(* out of calculate_hash with the same (nonce, hash), whatever nonce and hash *)
(* each held on entry.                                                        *)
C3_PureOfPrevAndPayload ==
    Len(output) = 2 =>
        /\ output[1].nonce = output[2].nonce
        /\ output[1].hash = output[2].hash

(* C3, amended: mining is a pure function of (previous_hash, payload, nonce   *)
(* on entry): two blocks with the same previous_hash, payload and entry nonce *)
(* (the 0 that Block::new gives every candidate of add in particular) come    *)
(* out of calculate_hash with the same (nonce, hash), whatever hash each held *)
(* on entry; the entry nonce does matter, the search starts from it.          *)
C3_PureOfPrevPayloadNonce ==
    (Len(output) = 2 /\ input[1].nonce = input[2].nonce) =>
        /\ output[1].nonce = output[2].nonce
        /\ output[1].hash = output[2].hash
        /\ output[1].previous_hash = output[2].previous_hash
        /\ output[1].payload = output[2].payload

\* Both calls have returned, from the same entry nonce and different entry
\* hashes, after a search that had to advance the nonce.
C3_Witness ==
    /\ Len(output) = 2
    /\ input[1].nonce = input[2].nonce
    /\ input[1].hash # input[2].hash
    /\ output[1].nonce > input[1].nonce

(* C4: for a sealed block (is_valid true), a block rebuilt with Block::raw    *)
(* that differs from it in exactly one of payload, nonce and hash makes       *)
(* is_valid return false.                                                     *)
C4_TamperDetected ==
    /\ Len(output) >= 1 => output[1] = TRUE
    /\ Len(output) = 2 => output[2] = FALSE

\* is_valid has rejected a block that differs from the sealed one in its
\* nonce alone.
C4_Witness ==
    /\ Len(output) = 2
    /\ output[1] = TRUE
    /\ output[2] = FALSE
    /\ input[2].nonce # input[1].nonce

\* Bit i (0 = the most significant bit of the first byte) of a digest.
Bit(h, i) == (h[i \div 8 + 1] \div Pow2(7 - (i % 8))) % 2

\* The top d bits of the digest are all zero.
TopBitsZero(h, d) == \A i \in 0..(d - 1) : Bit(h, i) = 0

(* C10, as claimed: for every difficulty D in 0..32 and every digest, the     *)
(* first four bytes read big-endian and shifted right by 32 - D are zero iff  *)
(* the top D bits of the digest are zero.                                     *)
C10_PrefixIsLeadingZeros ==
    output # <<>> =>
        ((output[1] = U32Zero) <=> TopBitsZero(input.hash, input.difficulty))

(* C10, amended: the same for every difficulty D in 1..32 (with D = 0 the     *)
(* shift by 32 overflows: it panics with overflow checks and shifts by 0      *)
(* without); with D = 16 the predicate holds exactly when the first two       *)
(* digest bytes are zero.                                                     *)
C10_PrefixIsLeadingZerosFrom1 ==
    (output # <<>> /\ input.difficulty >= 1) =>
        /\ output[1] # Panic
        /\ (output[1] = U32Zero) <=> TopBitsZero(input.hash, input.difficulty)
        /\ input.difficulty = DIFFICULTY =>
                ((output[1] = U32Zero) <=> (input.hash[1] = 0 /\ input.hash[2] = 0))

\* prefix has been evaluated at difficulty 16 on a digest with two zero bytes
\* and a non-zero third, and is zero.
C10_Witness ==
    /\ output # <<>>
    /\ input.difficulty = DIFFICULTY
    /\ input.hash[1] = 0 /\ input.hash[2] = 0 /\ input.hash[3] # 0
    /\ output[1] = U32Zero

=============================================================================
